---- MODULE Spec2Model ----
(***************************************************************************)
(* Model of zenml.model.model.Model: the get-or-create resolution of a     *)
(* model version reference against the model store, as concurrent callers  *)
(* (steps of one pipeline run, and callers outside any step) execute it.   *)
(*                                                                         *)
(* Every store call of the code is one atomic step of the model, except    *)
(* create_model_version, which the store serves in two steps (derive the   *)
(* next number and the implicit name, then insert under the uniqueness     *)
(* constraint): that window is where the EntityExistsError of the retry    *)
(* loop comes from.                                                        *)
(***************************************************************************)
EXTENDS Integers, Sequences, FiniteSets, TLC

(* ------------------------------ bounds -------------------------------- *)

\* how many resolutions the callers start in all
MaxResolve == 3
\* how many store calls fail with an error other than not-found or conflict
MaxFaults == 1

\* the concurrent callers, each owning one Model object
Procs == {1, 2}

(* ------------------------- program constants -------------------------- *)

\* zenml.constants.MAX_RETRIES_FOR_VERSIONED_ENTITY_CREATION
MAX_RETRIES_FOR_VERSIONED_ENTITY_CREATION == 10

\* ModelStages.values(): the stage names a version can be promoted to
ModelStages ==
    { <<"s","t","a","g","i","n","g">>,
      <<"p","r","o","d","u","c","t","i","o","n">> }

(* ------------------------------ values -------------------------------- *)

\* Optional[Union[ModelStages, int, str]]: strings are character sequences
None == [t |-> "none"]
StrV(s) == [t |-> "str", s |-> s]
IntV(n) == [t |-> "int", n |-> n]

\* Optional[List[str]]
ListV(l) == [t |-> "list", l |-> l]

ModelNames == {"churn", "fraud"}

\* the version selectors a caller may construct a Model with
Selectors ==
    { None,
      StrV(<<"v","1">>),
      StrV(<<"1">>),
      StrV(<<"s","t","a","g","i","n","g">>) }

\* the selectors that can lead to a creation: none, or an explicit name
ReuseSelectors == {None, StrV(<<"v","1">>)}

DigitChars == <<"0","1","2","3","4","5","6","7","8","9">>
DigitSet == {DigitChars[k] : k \in 1..10}

RECURSIVE Pow(_, _)
Pow(b, e) == IF e = 0 THEN 1 ELSE b * Pow(b, e - 1)

\* str(n) of a non-negative int
RECURSIVE IntToStr(_)
IntToStr(n) ==
    IF n < 10 THEN <<DigitChars[n + 1]>>
    ELSE IntToStr(n \div 10) \o <<DigitChars[(n % 10) + 1]>>

\* int(s) of a numeric string
RECURSIVE StrToInt(_)
StrToInt(s) ==
    IF s = <<>> THEN 0
    ELSE 10 * StrToInt(SubSeq(s, 1, Len(s) - 1))
         + (CHOOSE d \in 0..9 : DigitChars[d + 1] = s[Len(s)])

\* bool(version): None, "" and 0 are falsy
Truthy(v) ==
    CASE v.t = "none" -> FALSE
      [] v.t = "str" -> v.s # <<>>
      [] v.t = "int" -> v.n # 0

\* str(version)
StrOf(v) ==
    CASE v.t = "none" -> <<"N","o","n","e">>
      [] v.t = "str" -> v.s
      [] v.t = "int" -> IntToStr(v.n)

\* str.isnumeric()
IsNumeric(s) == s # <<>> /\ \A k \in 1..Len(s) : s[k] \in DigitSet

LowerChar(c) ==
    CASE c = "S" -> "s"
      [] c = "P" -> "p"
      [] c = "V" -> "v"
      [] OTHER -> c

\* str.lower()
Lower(s) == [k \in 1..Len(s) |-> LowerChar(s[k])]

(* ------------------------------- state -------------------------------- *)

VARIABLES
    models,       \* store: model entities [id, name]
    versions,     \* store: model version entities
    ref,          \* ref[p]: the fields of caller p's Model object
    pc,           \* pc[p]: where p stands in _get_or_create_model_version
    inStep,       \* inStep[p]: get_step_context() succeeds for p
    sel0,         \* sel0[p]: self.version when the current resolution began
    req,          \* req[p]: mv_request.name
    pending,      \* pending[p]: number and name the store derived for p's create
    i,            \* i[p]: the retry loop's variable
    retries_made, \* retries_made[p]
    calls,        \* calls[p]: store calls issued by the current resolution
    sleeps,       \* sleeps[p]: the delays time.sleep was called with
    error,        \* error[p]: the exception the current resolution raised
    result,       \* result[p]: id of the version the resolution returned
    nres,         \* nres[p]: resolutions started on p's Model object
    started,      \* resolutions started in all
    reused,       \* reused[p]: version id the reuse lookup adopted, 0 if none
    faults,       \* store calls that failed with another error so far
    run,          \* the run's configuration as the step context exposes it
    warnings,     \* warnings[p]: what the current resolution logged as warning
    arg,          \* the input of a function applied on its own
    ret,          \* what that function returned or raised
    eq,           \* the comparison self == other under way, and its result
    cfg,          \* cfg[p]: the object p called
                  \* _prepare_model_version_before_step_launch on
    prep,         \* prep[p]: whether that call passed a step run
    run_mv,       \* pipeline_run.model_version: the id the run is bound to
    binds         \* binds[p]: the run and step-run updates p issued

\* the variables the resolver never touches
objs == << eq, cfg, prep, run_mv, binds >>
aux == << arg, ret, objs >>

vars == << models, versions, ref, pc, inStep, sel0, req, pending, i,
           retries_made, calls, sleeps, error, result, nres, started,
           reused, faults, run, warnings, arg, ret, eq, cfg, prep, run_mv,
           binds >>

NoError == [kind |-> "none", retried |-> 0, name |-> "", version |-> None]

NoPending == [number |-> 0, name |-> <<>>]

\* Optional[str] and Optional[List[str]] fields: <<>> stands for None in
\* a description, which is otherwise a one-element sequence
NoDescription == <<>>

NoArg == [op |-> "none"]
NoRet == [op |-> "none"]

NewRef(name, version) ==
    [ name |-> name,
      version |-> version,
      description |-> NoDescription,
      tags |-> None,
      model_version_id |-> 0,
      was_created_in_this_run |-> FALSE,
      model_id |-> 0,
      number |-> 0 ]

InitResolver ==
    /\ models = {}
    /\ versions = {}
    /\ ref = [p \in Procs |-> NewRef("churn", None)]
    /\ pc = [p \in Procs |-> "idle"]
    /\ inStep = [p \in Procs |-> FALSE]
    /\ sel0 = [p \in Procs |-> None]
    /\ req = [p \in Procs |-> None]
    /\ pending = [p \in Procs |-> NoPending]
    /\ i = [p \in Procs |-> 0]
    /\ retries_made = [p \in Procs |-> 0]
    /\ calls = [p \in Procs |-> <<>>]
    /\ sleeps = [p \in Procs |-> <<>>]
    /\ error = [p \in Procs |-> NoError]
    /\ result = [p \in Procs |-> 0]
    /\ nres = [p \in Procs |-> 0]
    /\ faults = 0
    /\ started = 0
    /\ reused = [p \in Procs |-> 0]
    /\ run = [pipeline |-> {}, steps |-> [p \in Procs |-> {}]]
    /\ warnings = [p \in Procs |-> <<>>]

NoEq == [st |-> "none", via |-> "none", a |-> 0, b |-> 0]

InitObjects ==
    /\ eq = NoEq
    /\ cfg = [p \in Procs |-> NewRef("churn", None)]
    /\ prep = [p \in Procs |-> "none"]
    /\ run_mv = 0
    /\ binds = [p \in Procs |-> <<>>]

Init == InitResolver /\ InitObjects /\ arg = NoArg /\ ret = NoRet

(* ------------------------------- store -------------------------------- *)

\* zen_store.get_model(model_name_or_id=name): the entities of that name
ModelsNamed(name) == {m \in models : m.name = name}

VersionsOf(mid) == {v \in versions : v.model = mid}

\* Client.get_model_version(model_version_name_or_number_or_id=<id>)
VersionsById(id) == {v \in versions : v.id = id}

\* Client.get_model_version(model_name_or_id, model_version_name_or_number_or_id):
\* numeric selectors match by number, stage selectors by current stage,
\* the others by version name
VersionsBySelector(name, v) ==
    { mv \in versions :
        /\ \E m \in ModelsNamed(name) : mv.model = m.id
        /\ CASE v.t = "int" -> mv.number = v.n
             [] v.t = "str" /\ Lower(v.s) \in ModelStages ->
                    mv.stage = StrV(Lower(v.s))
             [] v.t = "str" /\ IsNumeric(v.s) -> mv.number = StrToInt(v.s)
             [] v.t = "str" -> mv.name = v.s
             [] OTHER -> FALSE }

\* the number the store assigns: one more than the model's latest
NextNumber(mid) ==
    IF VersionsOf(mid) = {} THEN 1
    ELSE (CHOOSE n \in {v.number : v \in VersionsOf(mid)} :
            \A v \in VersionsOf(mid) : v.number <= n) + 1

\* the uniqueness constraint of the version table
VersionConflict(mid, d) ==
    \E v \in VersionsOf(mid) : v.name = d.name \/ v.number = d.number

\* the uniqueness constraint of the model table
ModelConflict(name) == ModelsNamed(name) # {}

(* --------------------------- the resolver ----------------------------- *)

\* mv_request.name: str(self.version) if self.version else None
RequestName(v) == IF Truthy(v) THEN StrV(StrOf(v)) ELSE None

\* faulty variant, used to test the properties: the check against the stage names is missing
ReservedKindNoStage(v) ==
    IF IsNumeric(StrOf(v)) THEN "ReservedNumeric" ELSE "none"

\* faulty variant, used to test the properties: the check against numeric names is missing
ReservedKindNoNumeric(v) ==
    IF Truthy(v) /\ Lower(StrOf(v)) \in ModelStages THEN "ReservedStage"
    ELSE "none"

\* the two reserved-name checks of the KeyError handler
ReservedKind(v) ==
    IF Truthy(v) /\ Lower(StrOf(v)) \in ModelStages THEN "ReservedStage"
    ELSE IF IsNumeric(StrOf(v)) THEN "ReservedNumeric"
    ELSE "none"

\* faulty variant, used to test the properties: the delay doubles with every attempt
SleepDoubling(k) ==
    2 * Pow(2, k) * Pow(2, MAX_RETRIES_FOR_VERSIONED_ENTITY_CREATION - k)

\* sleep = 0.2 * 1.5**i, in units of 1 / SleepUnit seconds
SleepUnit == 10 * Pow(2, MAX_RETRIES_FOR_VERSIONED_ENTITY_CREATION)
Sleep(k) ==
    2 * Pow(3, k) * Pow(2, MAX_RETRIES_FOR_VERSIONED_ENTITY_CREATION - k)

\* faulty variant, used to test the properties: the loop gives up one attempt early
LastAttemptOffByOne(k) == k = MAX_RETRIES_FOR_VERSIONED_ENTITY_CREATION - 2

\* faulty variant, used to test the properties: the loop gives up at the
\* first conflict
LastAttemptFirst(k) == k = 0

\* whether the failed attempt k was the last one of the loop
LastAttempt(k) == k = MAX_RETRIES_FOR_VERSIONED_ENTITY_CREATION - 1

\* faulty variant, used to test the properties: the retry loop catches every exception
RetriedAny(exc) == TRUE

\* the exceptions of create_model_version the retry loop catches
Retried(exc) == exc = "EntityExistsError"

Raise(p, kind, r) ==
    /\ pc' = [pc EXCEPT ![p] = "failed"]
    /\ error' = [error EXCEPT ![p] =
                    [kind |-> kind, retried |-> retries_made[p],
                     name |-> r.name, version |-> r.version]]

Log(p, call) == calls' = [calls EXCEPT ![p] = Append(@, call)]

\* _get_or_create_model_version is entered: what a resolution starts from
Enter(p) ==
    /\ started < MaxResolve
    /\ started' = started + 1
    /\ pc' = [pc EXCEPT ![p] = "model"]
    /\ calls' = [calls EXCEPT ![p] = <<>>]
    /\ sleeps' = [sleeps EXCEPT ![p] = <<>>]
    /\ error' = [error EXCEPT ![p] = NoError]
    /\ result' = [result EXCEPT ![p] = 0]
    /\ reused' = [reused EXCEPT ![p] = 0]
    /\ i' = [i EXCEPT ![p] = 0]
    /\ retries_made' = [retries_made EXCEPT ![p] = 0]
    /\ pending' = [pending EXCEPT ![p] = NoPending]
    /\ warnings' = [warnings EXCEPT ![p] = <<>>]

\* a Model is constructed and _get_or_create_model_version is entered
Call(p, name, version, step) ==
    /\ pc[p] = "idle"
    /\ Enter(p)
    /\ nres' = [nres EXCEPT ![p] = 1]
    /\ ref' = [ref EXCEPT ![p] = NewRef(name, version)]
    /\ inStep' = [inStep EXCEPT ![p] = step]
    /\ sel0' = [sel0 EXCEPT ![p] = version]
    /\ UNCHANGED << models, versions, req, run, faults >>
    /\ UNCHANGED aux

\* a caller whose resolution has ended constructs another Model and enters
\* _get_or_create_model_version on it
NewModel(p, name, version, step) ==
    /\ pc[p] \in {"done", "failed"}
    /\ Enter(p)
    /\ nres' = [nres EXCEPT ![p] = 1]
    /\ ref' = [ref EXCEPT ![p] = NewRef(name, version)]
    /\ inStep' = [inStep EXCEPT ![p] = step]
    /\ sel0' = [sel0 EXCEPT ![p] = version]
    /\ UNCHANGED << models, versions, req, run, faults >>
    /\ UNCHANGED aux

\* Model(name="churn", version=..., tags=..., description=...) is
\* constructed outside any step, and _get_or_create_model_version entered
CallTagged(p, version, tags, description) ==
    /\ pc[p] = "idle"
    /\ Enter(p)
    /\ nres' = [nres EXCEPT ![p] = 1]
    /\ ref' = [ref EXCEPT ![p] =
                 [NewRef("churn", version) EXCEPT
                     !.tags = tags, !.description = description]]
    /\ inStep' = [inStep EXCEPT ![p] = FALSE]
    /\ sel0' = [sel0 EXCEPT ![p] = version]
    /\ UNCHANGED << models, versions, req, run, faults >>
    /\ UNCHANGED aux

\* _get_or_create_model_version is entered again on the same object
Restart(p) ==
    /\ pc[p] \in {"done", "failed"}
    /\ Enter(p)
    /\ nres' = [nres EXCEPT ![p] = @ + 1]
    /\ sel0' = [sel0 EXCEPT ![p] = ref[p].version]
    /\ UNCHANGED << models, versions, ref, inStep, req, run, faults >>
    /\ UNCHANGED aux

\* faulty variant, used to test the properties: the creation request is
\* sent as soon as the model is known
ModelResolvedCreates(p, mid) ==
    /\ ref' = [ref EXCEPT ![p].model_id = mid]
    /\ req' = [req EXCEPT ![p] = RequestName(ref[p].version)]
    /\ pc' = [pc EXCEPT ![p] = "create_version"]

\* _get_or_create_model returns: self._model_id = model.id, then the
\* version request is built from self.version
ModelResolved(p, mid) ==
    /\ ref' = [ref EXCEPT ![p].model_id = mid]
    /\ req' = [req EXCEPT ![p] = RequestName(ref[p].version)]
    /\ pc' = [pc EXCEPT ![p] = "reuse"]

\* _get_or_create_model: the first store call
GetModel(p) ==
    /\ pc[p] = "model"
    /\ IF ref[p].model_version_id # 0
       THEN /\ Log(p, "get_model_version")
            /\ IF VersionsById(ref[p].model_version_id) # {}
               THEN /\ ModelResolved(p,
                         (CHOOSE v \in VersionsById(ref[p].model_version_id) :
                             TRUE).model)
                    /\ UNCHANGED error
               ELSE /\ Raise(p, "KeyError", ref[p])
                    /\ UNCHANGED << ref, req >>
       ELSE /\ Log(p, "get_model")
            /\ IF ModelsNamed(ref[p].name) # {}
               THEN ModelResolved(p,
                        (CHOOSE m \in ModelsNamed(ref[p].name) : TRUE).id)
               ELSE /\ pc' = [pc EXCEPT ![p] = "create_model"]
                    /\ UNCHANGED << ref, req >>
            /\ UNCHANGED error
    /\ UNCHANGED << models, versions, inStep, sel0, pending, i, retries_made,
                    sleeps, result, nres, started, run, faults, reused >>
    /\ UNCHANGED << warnings, aux >>

\* faulty variant, used to test the properties: the EntityExistsError of create_model is not caught
CreateModelNoFallback(p) ==
    /\ pc[p] = "create_model"
    /\ Log(p, "create_model")
    /\ IF ModelConflict(ref[p].name)
       THEN /\ Raise(p, "EntityExistsError", ref[p])
            /\ UNCHANGED << models, ref, req >>
       ELSE /\ models' = models \cup
                    {[id |-> Cardinality(models) + 1, name |-> ref[p].name]}
            /\ ModelResolved(p, Cardinality(models) + 1)
            /\ UNCHANGED error
    /\ UNCHANGED << versions, inStep, sel0, pending, i, retries_made, sleeps,
                    result, nres, started, run, faults, reused >>
    /\ UNCHANGED << warnings, aux >>

\* _get_or_create_model: zen_store.create_model after the KeyError
CreateModel(p) ==
    /\ pc[p] = "create_model"
    /\ Log(p, "create_model")
    /\ IF ModelConflict(ref[p].name)
       THEN /\ pc' = [pc EXCEPT ![p] = "refetch_model"]
            /\ UNCHANGED << models, ref, req >>
       ELSE /\ models' = models \cup
                    {[id |-> Cardinality(models) + 1, name |-> ref[p].name]}
            /\ ModelResolved(p, Cardinality(models) + 1)
    /\ UNCHANGED << versions, inStep, sel0, pending, i, retries_made, sleeps,
                    error, result, nres, started, run, faults, reused >>
    /\ UNCHANGED << warnings, aux >>

\* _get_or_create_model: zen_store.get_model after the EntityExistsError
RefetchModel(p) ==
    /\ pc[p] = "refetch_model"
    /\ Log(p, "get_model")
    /\ IF ModelsNamed(ref[p].name) # {}
       THEN /\ ModelResolved(p,
                    (CHOOSE m \in ModelsNamed(ref[p].name) : TRUE).id)
            /\ UNCHANGED error
       ELSE /\ Raise(p, "KeyError", ref[p])
            /\ UNCHANGED << ref, req >>
    /\ UNCHANGED << models, versions, inStep, sel0, pending, i, retries_made,
                    sleeps, result, nres, started, run, faults, reused >>
    /\ UNCHANGED << warnings, aux >>

\* the condition of the reuse loop on a model of the run's configuration
ReuseMatch(m, name) ==
    /\ m.was_created_in_this_run
    /\ m.name = name
    /\ m.version # None

\* faulty variant, used to test the properties: the step models are
\* looked at before the run's own model
ReuseSourceStepsFirst(name) ==
    LET hits == {q \in Procs :
                   \E m \in run.steps[q] : ReuseMatch(m, name)}
    IN IF hits # {}
       THEN run.steps[CHOOSE q \in hits : \A o \in hits : q <= o]
       ELSE IF \E m \in run.pipeline : ReuseMatch(m, name)
       THEN run.pipeline
       ELSE {}

\* the model the reuse lookup adopts from: the run's own model first,
\* otherwise the first matching step model; empty when nothing matches
ReuseSource(name) ==
    IF \E m \in run.pipeline : ReuseMatch(m, name)
    THEN run.pipeline
    ELSE LET hits == {q \in Procs :
                        \E m \in run.steps[q] : ReuseMatch(m, name)}
         IN IF hits = {} THEN {}
            ELSE run.steps[CHOOSE q \in hits : \A o \in hits : q <= o]

\* the reuse lookup runs only without a selector and inside a step
ReuseApplies(p) == ~Truthy(ref[p].version) /\ inStep[p]

\* faulty variant, used to test the properties: the KeyError handler goes to the retry loop unconditionally
KeyErrorHandlerCreates(p, r) ==
    /\ pc' = [pc EXCEPT ![p] = "create_version"]
    /\ i' = [i EXCEPT ![p] = 0]
    /\ retries_made' = [retries_made EXCEPT ![p] = 0]
    /\ UNCHANGED error

\* the except KeyError block up to the retry loop
KeyErrorHandler(p, r) ==
    IF ReservedKind(r.version) # "none"
    THEN /\ Raise(p, ReservedKind(r.version), r)
         /\ UNCHANGED << i, retries_made >>
    ELSE /\ pc' = [pc EXCEPT ![p] = "create_version"]
         /\ i' = [i EXCEPT ![p] = 0]
         /\ retries_made' = [retries_made EXCEPT ![p] = 0]
         /\ UNCHANGED error

\* faulty variant, used to test the properties: every return marks the
\* object as created in this run
ReturnMarked(p, r, mv) ==
    /\ ref' = [ref EXCEPT ![p] =
                 [r EXCEPT !.model_version_id = mv.id,
                           !.model_id = mv.model,
                           !.number = mv.number,
                           !.was_created_in_this_run = TRUE]]
    /\ result' = [result EXCEPT ![p] = mv.id]
    /\ pc' = [pc EXCEPT ![p] = "done"]

\* faulty variant, used to test the properties: the number is not cached
ReturnNoNumber(p, r, mv) ==
    /\ ref' = [ref EXCEPT ![p] =
                 [r EXCEPT !.model_version_id = mv.id,
                           !.model_id = mv.model]]
    /\ result' = [result EXCEPT ![p] = mv.id]
    /\ pc' = [pc EXCEPT ![p] = "done"]

\* the tail of _get_or_create_model_version: cache and return model_version
Return(p, r, mv) ==
    /\ ref' = [ref EXCEPT ![p] =
                 [r EXCEPT !.model_version_id = mv.id,
                           !.model_id = mv.model,
                           !.number = mv.number]]
    /\ result' = [result EXCEPT ![p] = mv.id]
    /\ pc' = [pc EXCEPT ![p] = "done"]

\* faulty variant, used to test the properties: the branch on self.version or self.model_version_id reads the
\* values the object had before the reuse lookup
ReuseLookupStaleBranch(p) ==
    /\ pc[p] = "reuse"
    /\ LET src == IF ReuseApplies(p) THEN ReuseSource(ref[p].name) ELSE {}
           r == IF src = {} THEN ref[p]
                ELSE LET m == CHOOSE m \in src : TRUE
                     IN [ref[p] EXCEPT
                            !.version = m.version,
                            !.model_version_id = m.model_version_id]
       IN /\ ref' = [ref EXCEPT ![p] = r]
          /\ reused' = [reused EXCEPT ![p] =
                          IF src = {} THEN 0 ELSE r.model_version_id]
          /\ IF Truthy(ref[p].version) \/ ref[p].model_version_id # 0
             THEN /\ pc' = [pc EXCEPT ![p] = "get_version"]
                  /\ UNCHANGED << i, retries_made, error >>
             ELSE KeyErrorHandler(p, r)
    /\ UNCHANGED << models, versions, inStep, sel0, req, pending, calls,
                    sleeps, result, nres, started, run, faults >>
    /\ UNCHANGED << warnings, aux >>

\* the reuse lookup over the step context, then the branch on
\* self.version or self.model_version_id
ReuseLookup(p) ==
    /\ pc[p] = "reuse"
    /\ LET src == IF ReuseApplies(p) THEN ReuseSource(ref[p].name) ELSE {}
           r == IF src = {} THEN ref[p]
                ELSE LET m == CHOOSE m \in src : TRUE
                     IN [ref[p] EXCEPT
                            !.version = m.version,
                            !.model_version_id = m.model_version_id]
       IN /\ ref' = [ref EXCEPT ![p] = r]
          /\ reused' = [reused EXCEPT ![p] =
                          IF src = {} THEN 0 ELSE r.model_version_id]
          /\ IF Truthy(r.version) \/ r.model_version_id # 0
             THEN /\ pc' = [pc EXCEPT ![p] = "get_version"]
                  /\ UNCHANGED << i, retries_made, error >>
             ELSE KeyErrorHandler(p, r)
    /\ UNCHANGED << models, versions, inStep, sel0, req, pending, calls,
                    sleeps, result, nres, started, run, faults >>
    /\ UNCHANGED << warnings, aux >>

\* set(self.tags)
TagSet(tags) == {tags.l[k] : k \in 1..Len(tags.l)}

\* faulty variant, used to test the properties: the two tag differences
\* are taken the wrong way round
DifferenceSwapped(r, mv, hydrated) ==
    LET descDiff == /\ hydrated
                    /\ r.description \notin {NoDescription, <<"">>}
                    /\ mv.description # r.description
        tagDiff == /\ r.tags \notin {None, ListV(<<>>)}
                   /\ mv.tags # TagSet(r.tags)
    IN [ keys |-> (IF descDiff THEN {"description"} ELSE {})
                  \cup (IF tagDiff THEN {"tags added", "tags removed"}
                        ELSE {}),
         description |-> IF descDiff
                         THEN [config |-> r.description, db |-> mv.description]
                         ELSE [config |-> NoDescription, db |-> NoDescription],
         added |-> IF tagDiff THEN mv.tags \ TagSet(r.tags) ELSE {},
         removed |-> IF tagDiff THEN TagSet(r.tags) \ mv.tags ELSE {} ]

\* _get_model_version: the difference between the object's declared
\* description and tags and those of the fetched version; hydrated says
\* whether the response carries its metadata
Difference(r, mv, hydrated) ==
    LET descDiff == /\ hydrated
                    /\ r.description \notin {NoDescription, <<"">>}
                    /\ mv.description # r.description
        tagDiff == /\ r.tags \notin {None, ListV(<<>>)}
                   /\ mv.tags # TagSet(r.tags)
    IN [ keys |-> (IF descDiff THEN {"description"} ELSE {})
                  \cup (IF tagDiff THEN {"tags added", "tags removed"}
                        ELSE {}),
         description |-> IF descDiff
                         THEN [config |-> r.description, db |-> mv.description]
                         ELSE [config |-> NoDescription, db |-> NoDescription],
         added |-> IF tagDiff THEN TagSet(r.tags) \ mv.tags ELSE {},
         removed |-> IF tagDiff THEN mv.tags \ TagSet(r.tags) ELSE {} ]

\* _get_model_version: a difference that is not empty is logged as a warning
LogDifference(p, d) ==
    warnings' = [warnings EXCEPT ![p] =
                    IF d.keys # {} THEN Append(@, d) ELSE @]

\* _get_model_version: by id when the id is known, by selector otherwise
GetModelVersion(r) ==
    IF r.model_version_id # 0
    THEN VersionsById(r.model_version_id)
    ELSE VersionsBySelector(r.name, r.version)

\* faulty variant, used to test the properties: a difference that is not
\* empty fails the resolution
GetVersionStrict(p) ==
    /\ pc[p] = "get_version"
    /\ Log(p, "get_model_version")
    /\ IF GetModelVersion(ref[p]) # {}
       THEN LET mv == CHOOSE mv \in GetModelVersion(ref[p]) : TRUE
            IN /\ LogDifference(p, Difference(ref[p], mv, TRUE))
               /\ IF Difference(ref[p], mv, TRUE).keys # {}
                  THEN /\ Raise(p, "Mismatch", ref[p])
                       /\ UNCHANGED << ref, result >>
                  ELSE /\ Return(p, ref[p], mv)
                       /\ UNCHANGED error
               /\ UNCHANGED << i, retries_made >>
       ELSE /\ KeyErrorHandler(p, ref[p])
            /\ UNCHANGED << ref, result, warnings >>
    /\ UNCHANGED << models, versions, inStep, sel0, req, pending, sleeps,
                    nres, started, run, faults, reused >>
    /\ UNCHANGED aux

\* self._get_model_version() in the try block, hydrate defaulting to True:
\* the fetch, the difference, the return; or the KeyError
GetVersion(p) ==
    /\ pc[p] = "get_version"
    /\ Log(p, "get_model_version")
    /\ IF GetModelVersion(ref[p]) # {}
       THEN LET mv == CHOOSE mv \in GetModelVersion(ref[p]) : TRUE
            IN /\ LogDifference(p, Difference(ref[p], mv, TRUE))
               /\ Return(p, ref[p], mv)
               /\ UNCHANGED << i, retries_made, error >>
       ELSE /\ KeyErrorHandler(p, ref[p])
            /\ UNCHANGED << ref, result, warnings >>
    /\ UNCHANGED << models, versions, inStep, sel0, req, pending, sleeps,
                    nres, started, run, faults, reused >>
    /\ UNCHANGED aux

\* the except clause of the retry loop, and what passes through it
OnCreateError(p, exc) ==
    IF ~Retried(exc)
    THEN /\ Raise(p, exc, ref[p])
         /\ UNCHANGED << i, retries_made, sleeps >>
    ELSE IF LastAttempt(i[p])
    THEN /\ Raise(p, "Exhausted", ref[p])
         /\ UNCHANGED << i, retries_made, sleeps >>
    ELSE /\ sleeps' = [sleeps EXCEPT ![p] = Append(@, Sleep(i[p]))]
         /\ retries_made' = [retries_made EXCEPT ![p] = @ + 1]
         /\ i' = [i EXCEPT ![p] = @ + 1]
         /\ pc' = [pc EXCEPT ![p] = "create_version"]
         /\ UNCHANGED error

\* the name the store gives the new version
DerivedName(p, n) == IF req[p] = None THEN IntToStr(n) ELSE req[p].s

\* zen_store.create_model_version is called: the store derives the number
\* and the name of the new version
CreateVersion(p) ==
    /\ pc[p] = "create_version"
    /\ Log(p, "create_model_version")
    /\ pending' = [pending EXCEPT ![p] =
                     [number |-> NextNumber(ref[p].model_id),
                      name |-> DerivedName(p, NextNumber(ref[p].model_id))]]
    /\ pc' = [pc EXCEPT ![p] = "insert"]
    /\ UNCHANGED << models, versions, ref, inStep, sel0, req, i, retries_made,
                    sleeps, error, result, nres, started, run, faults, reused >>
    /\ UNCHANGED << warnings, aux >>

\* the new entity of a successful create_model_version
NewVersion(p) ==
    [ id |-> Cardinality(versions) + 1,
      model |-> ref[p].model_id,
      number |-> pending[p].number,
      name |-> pending[p].name,
      description |-> ref[p].description,
      tags |-> IF ref[p].tags = None THEN {} ELSE TagSet(ref[p].tags),
      stage |-> None,
      by |-> p ]

\* faulty variant, used to test the properties: was_created_in_this_run is not set after the creation
CreatedUnmarked(r, mv) == [r EXCEPT !.version = StrV(mv.name)]

\* what the resolver writes to the object after the loop
Created(r, mv) ==
    [r EXCEPT !.version = StrV(mv.name), !.was_created_in_this_run = TRUE]

\* the store inserts the version, or the insert violates uniqueness and
\* create_model_version raises EntityExistsError
InsertVersion(p) ==
    /\ pc[p] = "insert"
    /\ pending' = [pending EXCEPT ![p] = NoPending]
    /\ IF VersionConflict(ref[p].model_id, pending[p])
       THEN /\ OnCreateError(p, "EntityExistsError")
            /\ UNCHANGED << versions, ref, result >>
       ELSE /\ versions' = versions \cup {NewVersion(p)}
            /\ Return(p, Created(ref[p], NewVersion(p)), NewVersion(p))
            /\ UNCHANGED << i, retries_made, sleeps, error >>
    /\ UNCHANGED << models, inStep, sel0, req, calls, nres, started, run, faults, reused >>
    /\ UNCHANGED << warnings, aux >>

\* the store call p is about to issue
NextCall(p) ==
    CASE pc[p] = "model" ->
            IF ref[p].model_version_id # 0 THEN "get_model_version"
            ELSE "get_model"
      [] pc[p] = "create_model" -> "create_model"
      [] pc[p] = "refetch_model" -> "get_model"
      [] pc[p] = "get_version" -> "get_model_version"
      [] pc[p] = "create_version" -> "create_model_version"

\* a store call fails with an error that is neither not-found nor a
\* uniqueness conflict (connection lost, timeout, ...)
StoreFault(p) ==
    /\ faults < MaxFaults
    /\ pc[p] \in {"model", "create_model", "refetch_model", "get_version",
                  "create_version", "insert"}
    /\ IF pc[p] = "insert" THEN UNCHANGED calls ELSE Log(p, NextCall(p))
    /\ IF pc[p] \in {"create_version", "insert"}
       THEN OnCreateError(p, "StoreError")
       ELSE /\ Raise(p, "StoreError", ref[p])
            /\ UNCHANGED << i, retries_made, sleeps >>
    /\ pending' = [pending EXCEPT ![p] = NoPending]
    /\ faults' = faults + 1
    /\ UNCHANGED << models, versions, ref, inStep, sel0, req, result, nres, started,
                    run, reused >>
    /\ UNCHANGED << warnings, aux >>

(* -------------------------- the run's context ------------------------- *)

\* the step context exposes the resolved model of a finished step
RecordStep(p) ==
    /\ pc[p] = "done"
    /\ inStep[p]
    /\ run.steps[p] # {ref[p]}
    /\ run' = [run EXCEPT !.steps[p] = {ref[p]}]
    /\ UNCHANGED << models, versions, ref, pc, inStep, sel0, req, pending, i,
                    retries_made, calls, sleeps, error, result, nres, started, faults, reused >>
    /\ UNCHANGED << warnings, aux >>

\* the step context exposes a resolved model as the run's own model
RecordPipeline(p) ==
    /\ pc[p] = "done"
    /\ inStep[p]
    /\ run.pipeline = {}
    /\ run' = [run EXCEPT !.pipeline = {ref[p]}]
    /\ UNCHANGED << models, versions, ref, pc, inStep, sel0, req, pending, i,
                    retries_made, calls, sleeps, error, result, nres, started, faults, reused >>
    /\ UNCHANGED << warnings, aux >>

\* the stage Model.set_stage is called with
TargetStage == StrV(<<"s","t","a","g","i","n","g">>)

\* Model.set_stage on a resolved object: the store promotes the version,
\* unless another version of the model holds the stage (force=False)
SetStage(p) ==
    /\ pc[p] = "done"
    /\ \A v \in VersionsOf(ref[p].model_id) : v.stage # TargetStage
    /\ versions' = {IF v.id = result[p] THEN [v EXCEPT !.stage = TargetStage]
                    ELSE v : v \in versions}
    /\ UNCHANGED << models, ref, pc, inStep, sel0, req, pending, i,
                    retries_made, calls, sleeps, error, result, nres, started, faults,
                    reused, run >>
    /\ UNCHANGED << warnings, aux >>

(* ----------------------------- equality ------------------------------- *)

\* Model(name=..., version=...) is constructed and not resolved yet
NewObject(p, name, version) ==
    /\ pc[p] = "idle"
    /\ pc' = [pc EXCEPT ![p] = "new"]
    /\ ref' = [ref EXCEPT ![p] = NewRef(name, version)]
    /\ UNCHANGED << models, versions, inStep, sel0, req, pending, i,
                    retries_made, calls, sleeps, error, result, nres,
                    started, reused, faults, run, warnings >>
    /\ UNCHANGED aux

\* self._get_or_create_model_version() is called on p's object as it is
Reenter(p) ==
    /\ Enter(p)
    /\ nres' = [nres EXCEPT ![p] = @ + 1]
    /\ sel0' = [sel0 EXCEPT ![p] = ref[p].version]
    /\ UNCHANGED << models, versions, ref, inStep, req, run, faults >>

\* the first resolution of an object constructed earlier
Resolve(p) ==
    /\ pc[p] = "new"
    /\ Reenter(p)
    /\ UNCHANGED aux

\* what __hash__ hashes: "::".join((str(self.name), str(self.version)))
HashKey(r) == << r.name, ":", ":" >> \o StrOf(r.version)

\* faulty variant, used to test the properties: equal names suffice
EqShortcutNameOnly(x, y) ==
    IF x.name # y.name THEN "False" ELSE "True"

\* __eq__ up to the resolutions: the two returns that need no version
EqShortcut(x, y) ==
    IF x.name # y.name THEN "False"
    ELSE IF x.version = y.version THEN "True"
    ELSE "resolve"

\* a == b is evaluated: decided on names and versions, or self is resolved
EqBegin(a, b) ==
    /\ eq.st = "none" /\ a # b
    /\ pc[a] \in {"new", "done", "failed"}
    /\ pc[b] \in {"new", "done", "failed"}
    /\ IF EqShortcut(ref[a], ref[b]) = "resolve"
       THEN /\ Reenter(a)
            /\ eq' = [st |-> "self", via |-> "id", a |-> a, b |-> b]
       ELSE /\ eq' = [ st |-> EqShortcut(ref[a], ref[b]),
                       via |-> IF ref[a].name # ref[b].name THEN "name"
                               ELSE "version",
                       a |-> a, b |-> b ]
            /\ UNCHANGED << models, versions, ref, pc, inStep, sel0, req,
                            pending, i, retries_made, calls, sleeps, error,
                            result, nres, started, reused, faults, run,
                            warnings >>
    /\ UNCHANGED << arg, ret, cfg, prep, run_mv, binds >>

\* self is resolved: other._get_or_create_model_version()
EqOther ==
    /\ eq.st = "self" /\ pc[eq.a] = "done"
    /\ Reenter(eq.b)
    /\ eq' = [eq EXCEPT !.st = "other"]
    /\ UNCHANGED << arg, ret, cfg, prep, run_mv, binds >>

\* both are resolved: self_mv.id == other_mv.id
EqReturn ==
    /\ eq.st = "other" /\ pc[eq.b] = "done"
    /\ eq' = [eq EXCEPT !.st = IF result[eq.a] = result[eq.b]
                               THEN "True" ELSE "False"]
    /\ UNCHANGED << models, versions, ref, pc, inStep, sel0, req, pending, i,
                    retries_made, calls, sleeps, error, result, nres,
                    started, reused, faults, run, warnings >>
    /\ UNCHANGED << arg, ret, cfg, prep, run_mv, binds >>

\* one of the two resolutions raised: so does the comparison
EqRaise ==
    /\ \/ eq.st = "self" /\ pc[eq.a] = "failed"
       \/ eq.st = "other" /\ pc[eq.b] = "failed"
    /\ eq' = [eq EXCEPT !.st = "raised"]
    /\ UNCHANGED << models, versions, ref, pc, inStep, sel0, req, pending, i,
                    retries_made, calls, sleeps, error, result, nres,
                    started, reused, faults, run, warnings >>
    /\ UNCHANGED << arg, ret, cfg, prep, run_mv, binds >>

\* two callers construct a Model each, may resolve it, and the two objects
\* are compared
NextEq ==
    \/ \E p \in Procs :
          \/ \E name \in ModelNames, version \in Selectors :
                NewObject(p, name, version)
          \/ Resolve(p)
          \/ GetModel(p)
          \/ CreateModel(p)
          \/ RefetchModel(p)
          \/ ReuseLookup(p)
          \/ GetVersion(p)
          \/ CreateVersion(p)
          \/ InsertVersion(p)
    \/ \E a, b \in Procs : EqBegin(a, b)
    \/ EqOther
    \/ EqReturn
    \/ EqRaise

SpecEq == Init /\ [][NextEq]_vars

(* ----------------- preparation before a step launch ------------------ *)

\* faulty variant, used to test the properties: the run's model version is
\* not looked at
PreparedCopyNoAdopt(r, step) == r

\* self_copy after lines 854-871: the run's model version is adopted when
\* no step run is passed and the run has one; a version without
\* placeholders is left as it is by format_name_template
PreparedCopy(r, step) ==
    IF ~step /\ run_mv # 0
    THEN [r EXCEPT
            !.version = StrV((CHOOSE v \in versions : v.id = run_mv).name),
            !.model_version_id = run_mv]
    ELSE r

\* _prepare_model_version_before_step_launch is called on p's object, with
\* or without a step run: the copy is made and, if it has no
\* model_version_id, resolved; otherwise the call returns at once
PrepareBegin(p, step) ==
    /\ pc[p] \in {"new", "prepared"}
    /\ prep[p] = "none"
    /\ IF PreparedCopy(ref[p], step).model_version_id = 0
       THEN /\ Enter(p)
            /\ nres' = [nres EXCEPT ![p] = @ + 1]
            /\ cfg' = [cfg EXCEPT ![p] = ref[p]]
            /\ ref' = [ref EXCEPT ![p] = PreparedCopy(ref[p], step)]
            /\ sel0' = [sel0 EXCEPT ![p] = PreparedCopy(ref[p], step).version]
            /\ prep' = [prep EXCEPT ![p] = IF step THEN "step" ELSE "run"]
       ELSE /\ ref' = [ref EXCEPT ![p].model_version_id =
                         PreparedCopy(ref[p], step).model_version_id]
            /\ pc' = [pc EXCEPT ![p] = "prepared"]
            /\ UNCHANGED << sel0, pending, i, retries_made, calls, sleeps,
                            error, result, nres, started, reused, warnings,
                            cfg, prep >>
    /\ UNCHANGED << models, versions, inStep, req, run, faults >>
    /\ UNCHANGED << arg, ret, eq, run_mv, binds >>

\* faulty variant, used to test the properties: the resolution ran on the
\* object itself, not on a copy
PrepareBindNoCopy(p) ==
    /\ prep[p] # "none" /\ pc[p] = "done"
    /\ binds' = [binds EXCEPT ![p] =
                    Append(@, [to |-> prep[p], id |-> result[p]])]
    /\ run_mv' = IF prep[p] = "run" THEN result[p] ELSE run_mv
    /\ cfg' = [cfg EXCEPT ![p] = NewRef("churn", None)]
    /\ prep' = [prep EXCEPT ![p] = "none"]
    /\ pc' = [pc EXCEPT ![p] = "prepared"]
    /\ UNCHANGED << models, versions, ref, inStep, sel0, req, pending, i,
                    retries_made, calls, sleeps, error, result, nres,
                    started, reused, faults, run, warnings >>
    /\ UNCHANGED << arg, ret, eq >>

\* the copy is resolved: the step run or the pipeline run is updated with
\* the version id, and the id is written to the object the call was made on
PrepareBind(p) ==
    /\ prep[p] # "none" /\ pc[p] = "done"
    /\ binds' = [binds EXCEPT ![p] =
                    Append(@, [to |-> prep[p], id |-> result[p]])]
    /\ run_mv' = IF prep[p] = "run" THEN result[p] ELSE run_mv
    /\ ref' = [ref EXCEPT ![p] =
                 [cfg[p] EXCEPT !.model_version_id = ref[p].model_version_id]]
    /\ cfg' = [cfg EXCEPT ![p] = NewRef("churn", None)]
    /\ prep' = [prep EXCEPT ![p] = "none"]
    /\ pc' = [pc EXCEPT ![p] = "prepared"]
    /\ UNCHANGED << models, versions, inStep, sel0, req, pending, i,
                    retries_made, calls, sleeps, error, result, nres,
                    started, reused, faults, run, warnings >>
    /\ UNCHANGED << arg, ret, eq >>

\* the resolution of the copy raised: so does the call, and the object it
\* was made on is left as it was
PrepareRaise(p) ==
    /\ prep[p] # "none" /\ pc[p] = "failed"
    /\ ref' = [ref EXCEPT ![p] = cfg[p]]
    /\ cfg' = [cfg EXCEPT ![p] = NewRef("churn", None)]
    /\ prep' = [prep EXCEPT ![p] = "none"]
    /\ UNCHANGED << models, versions, pc, inStep, sel0, req, pending, i,
                    retries_made, calls, sleeps, error, result, nres,
                    started, reused, faults, run, warnings >>
    /\ UNCHANGED << arg, ret, eq, run_mv, binds >>

\* the next run starts: its pipeline run has no model version yet
NewRun ==
    /\ run_mv # 0
    /\ \A p \in Procs : prep[p] = "none"
    /\ run_mv' = 0
    /\ UNCHANGED << models, versions, ref, pc, inStep, sel0, req, pending, i,
                    retries_made, calls, sleeps, error, result, nres,
                    started, reused, faults, run, warnings >>
    /\ UNCHANGED << arg, ret, eq, cfg, prep, binds >>

\* launchers prepare the model versions of their configuration objects
NextPrepare ==
    \/ \E p \in Procs :
          \/ \E name \in ModelNames, version \in ReuseSelectors :
                NewObject(p, name, version)
          \/ \E step \in BOOLEAN : PrepareBegin(p, step)
          \/ PrepareBind(p)
          \/ PrepareRaise(p)
          \/ GetModel(p)
          \/ CreateModel(p)
          \/ RefetchModel(p)
          \/ ReuseLookup(p)
          \/ GetVersion(p)
          \/ CreateVersion(p)
          \/ InsertVersion(p)
    \/ NewRun

SpecPrepare == Init /\ [][NextPrepare]_vars

(* ----------------------------- accessors ------------------------------ *)

\* the errors _get_or_create_model_version raises as RuntimeError: the two
\* reserved-name errors and the exhausted retries
RuntimeErrors == {"ReservedStage", "ReservedNumeric", "Exhausted"}

Properties == {"id", "number", "stage"}

\* the value id and number return without resolving; 0 when there is none
\* (stage resolves every time)
CachedValue(r, prop) ==
    CASE prop = "id" -> r.model_version_id
      [] prop = "number" -> r.number
      [] OTHER -> 0

\* faulty variant, used to test the properties: number raises what id raises
AccessorRaisesAlike(prop, kind) ==
    IF kind \notin RuntimeErrors THEN kind
    ELSE IF prop \in {"id", "number"} THEN "RuntimeError"
    ELSE "none"

\* what the property raises when the resolution raised kind: the except
\* clauses catch RuntimeError only; "none" when nothing is raised
AccessorRaises(prop, kind) ==
    IF kind \notin RuntimeErrors THEN kind
    ELSE CASE prop = "id" -> "RuntimeError"
           [] prop = "number" -> "KeyError"
           [] prop = "stage" -> "none"

\* what the property returns once the resolution returned mv
AccessorValue(prop, mv) ==
    CASE prop = "id" -> IntV(mv.id)
      [] prop = "number" -> IntV(mv.number)
      [] prop = "stage" -> mv.stage

\* the property prop of p's object is read: the cached value is returned,
\* or _get_or_create_model_version is entered
AccessBegin(p, prop) ==
    /\ arg = NoArg
    /\ pc[p] \in {"new", "done", "failed"}
    /\ IF CachedValue(ref[p], prop) # 0
       THEN /\ ret' = [ op |-> "access", p |-> p, prop |-> prop,
                        cached |-> TRUE, raised |-> "none",
                        value |-> IntV(CachedValue(ref[p], prop)) ]
            /\ UNCHANGED << models, versions, ref, pc, inStep, sel0, req,
                            pending, i, retries_made, calls, sleeps, error,
                            result, nres, started, reused, faults, run,
                            warnings, arg >>
       ELSE /\ Reenter(p)
            /\ arg' = [op |-> "access", p |-> p, prop |-> prop]
            /\ ret' = NoRet
    /\ UNCHANGED objs

\* the resolution the property entered returned
AccessReturn ==
    /\ arg.op = "access" /\ pc[arg.p] = "done"
    /\ ret' = [ op |-> "access", p |-> arg.p, prop |-> arg.prop,
                cached |-> FALSE, raised |-> "none",
                value |-> AccessorValue(arg.prop,
                             CHOOSE v \in versions : v.id = result[arg.p]) ]
    /\ arg' = NoArg
    /\ UNCHANGED << models, versions, ref, pc, inStep, sel0, req, pending, i,
                    retries_made, calls, sleeps, error, result, nres,
                    started, reused, faults, run, warnings >>
    /\ UNCHANGED objs

\* the resolution the property entered raised
AccessRaise ==
    /\ arg.op = "access" /\ pc[arg.p] = "failed"
    /\ ret' = [ op |-> "access", p |-> arg.p, prop |-> arg.prop,
                cached |-> FALSE,
                raised |-> AccessorRaises(arg.prop, error[arg.p].kind),
                value |-> None ]
    /\ arg' = NoArg
    /\ UNCHANGED << models, versions, ref, pc, inStep, sel0, req, pending, i,
                    retries_made, calls, sleeps, error, result, nres,
                    started, reused, faults, run, warnings >>
    /\ UNCHANGED objs

\* callers construct Models of one name and read their properties, one
\* read at a time, while the other caller may resolve its object
NextAccess ==
    \/ \E p \in Procs :
          \/ \E version \in Selectors : NewObject(p, "churn", version)
          \/ \E prop \in Properties : AccessBegin(p, prop)
          \/ Resolve(p)
          \/ GetModel(p)
          \/ CreateModel(p)
          \/ RefetchModel(p)
          \/ ReuseLookup(p)
          \/ GetVersion(p)
          \/ CreateVersion(p)
          \/ InsertVersion(p)
          \/ StoreFault(p)
          \/ SetStage(p)
    \/ AccessReturn
    \/ AccessRaise

SpecAccess == Init /\ [][NextAccess]_vars

(* ------------------ construction and lazy loading --------------------- *)

\* faulty variant, used to test the properties: the validated data keep
\* the flag they came with
RootValidatorKeepsFlag(data) ==
    IF ~data.suppress_class_validation_warnings /\ data.model_version_id # 0
    THEN [raised |-> "ValueError", notices |-> {}, data |-> data]
    ELSE [ raised |-> "none",
           notices |->
              (IF /\ data.version \in {StrV(st) : st \in ModelStages}
                  /\ ~data.suppress_class_validation_warnings
               THEN {"stage"} ELSE {})
              \cup
              (IF /\ IsNumeric(StrOf(data.version))
                  /\ ~data.suppress_class_validation_warnings
               THEN {"numeric"} ELSE {}),
           data |-> data ]

\* Model._root_validator on the raw data of a construction: the ValueError,
\* or the notices logged and the data returned
RootValidator(data) ==
    IF ~data.suppress_class_validation_warnings /\ data.model_version_id # 0
    THEN [raised |-> "ValueError", notices |-> {}, data |-> data]
    ELSE [ raised |-> "none",
           notices |->
              (IF /\ data.version \in {StrV(st) : st \in ModelStages}
                  /\ ~data.suppress_class_validation_warnings
               THEN {"stage"} ELSE {})
              \cup
              (IF /\ IsNumeric(StrOf(data.version))
                  /\ ~data.suppress_class_validation_warnings
               THEN {"numeric"} ELSE {}),
           data |-> [data EXCEPT !.suppress_class_validation_warnings = TRUE] ]

\* Model._lazy_version: str(self._number) if the number is known, else the
\* version as a string, else None (a number of 0 stands for None)
LazyVersion(r) ==
    IF r.number # 0 THEN StrV(IntToStr(r.number))
    ELSE IF r.version # None THEN StrV(StrOf(r.version))
    ELSE None

NoPlaceholder == [kind |-> "none"]

\* faulty variant, used to test the properties: the pipeline context is
\* not looked at
LazyGetEager(a) == [resolves |-> TRUE, placeholder |-> NoPlaceholder]

\* get_artifact, get_model_artifact, get_data_artifact,
\* get_deployment_artifact (through _lazy_artifact_get) and run_metadata:
\* the placeholder when get_pipeline_context() succeeds, otherwise the
\* call of _get_or_create_model_version
LazyGet(a) ==
    IF ~a.pipeline_context
    THEN [resolves |-> TRUE, placeholder |-> NoPlaceholder]
    ELSE IF a.method = "run_metadata"
    THEN [ resolves |-> FALSE,
           placeholder |->
              [ kind |-> "RunMetadataLazyGetter",
                lazy_load_model_name |-> a.self.name,
                lazy_load_model_version |-> LazyVersion(a.self) ] ]
    ELSE [ resolves |-> FALSE,
           placeholder |->
              [ kind |-> "LazyArtifactVersionResponse",
                lazy_load_name |-> a.name,
                lazy_load_version |-> a.version,
                lazy_load_model_name |-> a.self.name,
                lazy_load_model_version |-> LazyVersion(a.self) ] ]

\* the version tokens a Model is constructed with
Tokens ==
    Selectors \cup
    { StrV(<<"S","t","a","g","i","n","g">>),
      StrV(<<"p","r","o","d","u","c","t","i","o","n">>),
      IntV(0), IntV(1) }

\* the raw data of a construction
ConstructArgs ==
    [ op : {"construct"},
      data : [ name : {"churn"},
               version : Tokens,
               model_version_id : {0, 1},
               suppress_class_validation_warnings : BOOLEAN ] ]

LazyMethods ==
    { "get_artifact", "get_model_artifact", "get_data_artifact",
      "get_deployment_artifact", "run_metadata" }

\* a lazy getter, the context it is called in and the object it is called on
LazyArgs ==
    [ op : {"lazy"},
      method : LazyMethods,
      pipeline_context : BOOLEAN,
      name : {"features"},
      version : {None, StrV(<<"3">>)},
      self : [name : {"churn"}, version : Tokens, number : {0, 2}] ]

\* Model(**data)
Construct ==
    /\ arg.op = "construct" /\ ret = NoRet
    /\ ret' = [ op |-> "construct",
                raised |-> RootValidator(arg.data).raised,
                notices |-> RootValidator(arg.data).notices,
                data |-> RootValidator(arg.data).data ]
    /\ UNCHANGED << models, versions, ref, pc, inStep, sel0, req, pending, i,
                    retries_made, calls, sleeps, error, result, nres,
                    started, reused, faults, run, warnings, arg >>
    /\ UNCHANGED objs

\* an object whose resolution cached model_version_id is validated again
\* from its own fields
Revalidate(id) ==
    /\ ret.op = "construct" /\ ret.raised = "none"
    /\ LET data == [ret.data EXCEPT !.model_version_id = id]
       IN ret' = [ op |-> "revalidate",
                   raised |-> RootValidator(data).raised,
                   notices |-> RootValidator(data).notices,
                   data |-> RootValidator(data).data ]
    /\ UNCHANGED << models, versions, ref, pc, inStep, sel0, req, pending, i,
                    retries_made, calls, sleeps, error, result, nres,
                    started, reused, faults, run, warnings, arg >>
    /\ UNCHANGED objs

\* one of the lazy getters is called
CallLazyGet ==
    /\ arg.op = "lazy" /\ ret = NoRet
    /\ ret' = [ op |-> "lazy",
                resolves |-> LazyGet(arg).resolves,
                placeholder |-> LazyGet(arg).placeholder ]
    /\ UNCHANGED << models, versions, ref, pc, inStep, sel0, req, pending, i,
                    retries_made, calls, sleeps, error, result, nres,
                    started, reused, faults, run, warnings, arg >>
    /\ UNCHANGED objs

InitPure ==
    /\ InitResolver
    /\ InitObjects
    /\ arg \in ConstructArgs \cup LazyArgs
    /\ ret = NoRet

NextPure ==
    \/ Construct
    \/ \E id \in {1, 2} : Revalidate(id)
    \/ CallLazyGet

SpecPure == InitPure /\ [][NextPure]_vars

(* --------------------------- specification ---------------------------- *)

Next ==
    \E p \in Procs :
        \/ \E name \in ModelNames, version \in Selectors, step \in BOOLEAN :
              Call(p, name, version, step)
        \/ Restart(p)
        \/ GetModel(p)
        \/ CreateModel(p)
        \/ RefetchModel(p)
        \/ ReuseLookup(p)
        \/ GetVersion(p)
        \/ CreateVersion(p)
        \/ InsertVersion(p)
        \/ StoreFault(p)
        \/ RecordStep(p)
        \/ RecordPipeline(p)
        \/ SetStage(p)

Spec == Init /\ [][Next]_vars

\* the steps of one run, each constructing Models one after the other,
\* with the step context exposing what they resolved
NextReuse ==
    \E p \in Procs :
        \/ \E name \in ModelNames, version \in ReuseSelectors, step \in BOOLEAN :
              \/ Call(p, name, version, step)
              \/ NewModel(p, name, version, step)
        \/ GetModel(p)
        \/ CreateModel(p)
        \/ RefetchModel(p)
        \/ ReuseLookup(p)
        \/ GetVersion(p)
        \/ CreateVersion(p)
        \/ InsertVersion(p)
        \/ RecordStep(p)
        \/ RecordPipeline(p)

SpecReuse == Init /\ [][NextReuse]_vars

\* the tags and descriptions callers declare
DeclaredTags ==
    {None, ListV(<<"a","b">>), ListV(<<"b","c">>), ListV(<<"c","b","c">>)}
Descriptions == {NoDescription, <<"old">>, <<"new">>}

\* callers that declare tags and a description, fetching or creating the
\* versions of one model
NextFetch ==
    \E p \in Procs :
        \/ \E version \in ReuseSelectors, tags \in DeclaredTags,
              description \in Descriptions :
              CallTagged(p, version, tags, description)
        \/ Restart(p)
        \/ GetModel(p)
        \/ CreateModel(p)
        \/ RefetchModel(p)
        \/ ReuseLookup(p)
        \/ GetVersion(p)
        \/ CreateVersion(p)
        \/ InsertVersion(p)

SpecFetch == Init /\ [][NextFetch]_vars

\* the next step of p's resolution, whatever position it is at
Step(p) ==
    \/ GetModel(p)
    \/ CreateModel(p)
    \/ RefetchModel(p)
    \/ ReuseLookup(p)
    \/ GetVersion(p)
    \/ CreateVersion(p)
    \/ InsertVersion(p)

\* every caller resolves a reference without a selector against one model,
\* and may resolve its object again; no store call fails otherwise
NextLive ==
    \E p \in Procs :
        \/ \E step \in BOOLEAN : Call(p, "churn", None, step)
        \/ Restart(p)
        \/ GetModel(p)
        \/ CreateModel(p)
        \/ RefetchModel(p)
        \/ ReuseLookup(p)
        \/ GetVersion(p)
        \/ CreateVersion(p)
        \/ InsertVersion(p)

\* a caller is a running thread whose store calls return: a resolution
\* under way takes its next step
SpecLive ==
    /\ Init
    /\ [][NextLive]_vars
    /\ \A p \in Procs : WF_vars(Step(p))

(* ------------------------------- claims ------------------------------- *)

\* create_model_version calls the current resolution of p has issued
Creates(p) ==
    Cardinality({k \in 1..Len(calls[p]) : calls[p][k] = "create_model_version"})

\* the selectors of the model that are a stage value or purely numeric
StageOrNumeric ==
    { StrV(<<"1">>), StrV(<<"s","t","a","g","i","n","g">>) }

ReservedErrors == {"ReservedStage", "ReservedNumeric"}

\* p's resolution returned and began without a selector, inside the run
RunNoSelector(p) == pc[p] = "done" /\ inStep[p] /\ sel0[p] = None

\* C1: within one run, all resolutions of no-selector references of one
\* model name yield the same version id, and the run creates one version
\* of that name only.
C1_IdempotentReuse ==
    \A p, q \in Procs :
        (RunNoSelector(p) /\ RunNoSelector(q) /\ ref[p].name = ref[q].name)
        => /\ result[p] = result[q]
           /\ Cardinality({v \in versions :
                             v.model = ref[p].model_id /\ v.by \in {p, q}}) <= 1

\* two first resolutions without a selector raced on one model: p lost the
\* insert once and retried, q created at its first attempt
Raced(p, q) ==
    /\ p # q
    /\ pc[p] = "done" /\ pc[q] = "done"
    /\ nres[p] = 1 /\ nres[q] = 1
    /\ sel0[p] = None /\ sel0[q] = None
    /\ ref[p].name = ref[q].name
    /\ Creates(p) = 2 /\ Creates(q) = 1

\* C2 as stated: the caller that lost the race reuses the version of the
\* winner; both end with the same id and number 1, and one version exists.
C2_LoserReusesWinner ==
    \A p, q \in Procs :
        Raced(p, q)
        => /\ result[p] = result[q]
           /\ ref[p].number = 1 /\ ref[q].number = 1
           /\ Cardinality(VersionsOf(ref[p].model_id)) = 1

\* C2 amended: the retry of the caller that lost the race creates a second
\* version; the callers end with different ids, numbers 1 and 2, both
\* marked as created in this run, and two versions exist.
C2_LoserCreatesSecond ==
    \A p, q \in Procs :
        Raced(p, q)
        => /\ result[p] # result[q]
           /\ ref[q].number = 1 /\ ref[p].number = 2
           /\ ref[p].model_version_id = result[p]
           /\ ref[q].model_version_id = result[q]
           /\ ref[p].was_created_in_this_run /\ ref[q].was_created_in_this_run
           /\ Cardinality(VersionsOf(ref[p].model_id)) = 2

C2_Witness == \E p, q \in Procs : Raced(p, q)

\* C3 as stated: a resolution that began with a selector never issues a
\* create_model_version call.
C3_SelectorNeverCreates ==
    \A p \in Procs : Truthy(sel0[p]) => Creates(p) = 0

\* C3 amended: a resolution that began with a stage or numeric selector
\* never issues a create_model_version call and, when the lookup misses,
\* fails with the reserved-name error; the resolutions that reach creation
\* began with no selector or with an explicit, non-reserved name.
C3_ReservedSelectorNeverCreates ==
    \A p \in Procs :
        /\ sel0[p] \in StageOrNumeric
           => /\ Creates(p) = 0
              /\ pc[p] \notin {"create_version", "insert"}
              /\ pc[p] = "failed"
                 => error[p].kind \in ReservedErrors \cup {"StoreError"}
        /\ pc[p] \in {"create_version", "insert"}
           => sel0[p] \in {None, StrV(<<"v","1">>)}

C3_Witness ==
    \E p \in Procs :
        /\ sel0[p] \in StageOrNumeric
        /\ pc[p] = "failed"
        /\ error[p].kind \in ReservedErrors
        /\ calls[p][Len(calls[p])] = "get_model_version"

\* C4 as stated: a resolution that fails with the reserved-name error has
\* issued no store call.
C4_ReservedBeforeAnyCall ==
    \A p \in Procs :
        (pc[p] = "failed" /\ error[p].kind \in ReservedErrors)
        => calls[p] = <<>>

\* C4 amended: a resolution that fails with the reserved-name error has
\* looked up (and, if absent, created) the parent model, then missed the
\* version lookup, and has issued no create_model_version call; no
\* stage or numeric selector gets as far as the creation loop.
C4_ReservedBeforeCreate ==
    \A p \in Procs :
        /\ (pc[p] = "failed" /\ error[p].kind \in ReservedErrors)
           => /\ calls[p] \in
                   { <<"get_model", "get_model_version">>,
                     <<"get_model", "create_model", "get_model_version">>,
                     <<"get_model", "create_model", "get_model",
                       "get_model_version">> }
              /\ Creates(p) = 0
              /\ ModelsNamed(ref[p].name) # {}
              /\ ref[p].version \in StageOrNumeric
        /\ (ref[p].version \in StageOrNumeric /\ ref[p].model_version_id = 0)
           => pc[p] \notin {"create_version", "insert"}

C4_Witness ==
    \E p \in Procs :
        /\ pc[p] = "failed"
        /\ error[p].kind = "ReservedStage"
        /\ calls[p] = <<"get_model", "create_model", "get_model_version">>

\* p's version lookup by a stage or numeric selector is about to miss
StageOrNumericMiss(p) ==
    /\ pc[p] = "get_version"
    /\ ref[p].model_version_id = 0
    /\ ref[p].version \in StageOrNumeric
    /\ \A v \in VersionsOf(ref[p].model_id) :
          /\ v.stage # ref[p].version
          /\ IntToStr(v.number) # ref[p].version.s

\* C5: a lookup by stage or number that matches no version of the model
\* ends the resolution with an error; it issues no create_model_version
\* call and leaves the versions of the store as they were.
C5_MissIsNotCreation ==
    [][\A p \in Procs :
          (StageOrNumericMiss(p) /\ calls'[p] # calls[p])
          => /\ pc'[p] = "failed"
             /\ error'[p].kind \in ReservedErrors \cup {"StoreError"}
             /\ versions' = versions
             /\ Creates(p)' = 0]_vars

C5_Witness ==
    \E p \in Procs :
        /\ pc[p] = "failed"
        /\ error[p].kind = "ReservedNumeric"
        /\ calls[p] = <<"get_model", "get_model_version">>
        /\ VersionsOf(ref[p].model_id) # {}

\* C6: a resolution issues at most MAX_RETRIES_FOR_VERSIONED_ENTITY_CREATION
\* create_model_version calls; when every one of them conflicts it fails
\* after exactly that many, the error names the retries made, the model
\* and the version, and the object is neither marked as created in this
\* run nor given a model_version_id.
C6_ExhaustedRetries ==
    \A p \in Procs :
        /\ Creates(p) <= MAX_RETRIES_FOR_VERSIONED_ENTITY_CREATION
        /\ pc[p] = "create_version" => Creates(p) = i[p]
        /\ pc[p] = "insert" => Creates(p) = i[p] + 1
        /\ (pc[p] = "failed" /\ error[p].kind = "Exhausted")
           => /\ Creates(p) = MAX_RETRIES_FOR_VERSIONED_ENTITY_CREATION
              /\ calls[p][Len(calls[p])] = "create_model_version"
              /\ error[p].retried =
                    MAX_RETRIES_FOR_VERSIONED_ENTITY_CREATION - 1
              /\ error[p].name = ref[p].name
              /\ error[p].version = ref[p].version
              /\ ~ref[p].was_created_in_this_run
              /\ ref[p].model_version_id = 0
              /\ result[p] = 0

C6_Witness ==
    \E p \in Procs : pc[p] = "failed" /\ error[p].kind = "Exhausted"

\* C7: a store call that fails with an error other than not-found or a
\* uniqueness conflict ends the resolution with that error at once: no
\* sleep, no retry, no further store call; the only step that sleeps and
\* retries is a create_model_version that hit the uniqueness constraint.
C7_OnlyConflictsRetried ==
    [][\A p \in Procs :
          /\ (faults' = faults + 1
              /\ (pc'[p] # pc[p] \/ calls'[p] # calls[p]))
             => /\ pc'[p] = "failed"
                /\ error'[p].kind = "StoreError"
                /\ sleeps'[p] = sleeps[p]
                /\ i'[p] = i[p]
                /\ Len(calls'[p]) <= Len(calls[p]) + 1
          /\ (pc[p] = "failed" /\ nres'[p] = nres[p])
             => /\ pc'[p] = "failed"
                /\ calls'[p] = calls[p]
                /\ sleeps'[p] = sleeps[p]
          /\ Len(sleeps'[p]) > Len(sleeps[p])
             => /\ pc[p] = "insert"
                /\ faults' = faults
                /\ \E v \in versions :
                      /\ v.model = ref[p].model_id
                      /\ v.name = pending[p].name
                         \/ v.number = pending[p].number]_vars

C7_Witness ==
    \E p \in Procs :
        /\ pc[p] = "failed"
        /\ error[p].kind = "StoreError"
        /\ Creates(p) >= 1

\* the delays of the claim, in hundredths of a second
ClaimedDelays == <<20, 30, 45, 68, 102>>

\* the delays of the comment in the retry loop, in hundredths of a second
RoundedDelays == <<20, 30, 45, 68, 101>>

\* delay d (in 1 / SleepUnit seconds) is h hundredths when rounded
Rounds(d, h) ==
    LET diff == 200 * d - 2 * h * SleepUnit
    IN (IF diff < 0 THEN -diff ELSE diff) <= SleepUnit

\* C8 as stated: the first delays are 0.2, 0.3, 0.45, 0.68, 1.02.
C8_ClaimedSchedule ==
    \A p \in Procs : \A k \in 1..Len(sleeps[p]) :
        k <= Len(ClaimedDelays) => Rounds(sleeps[p][k], ClaimedDelays[k])

\* C8 amended: the k-th delay slept is 0.2 * 1.5^(k-1), so the delays are
\* 0.2, 0.3, 0.45, 0.68 (0.675), 1.01 (1.0125), ...; they strictly
\* increase, one is slept after each conflicting attempt but the last, and
\* none after a success, so at most
\* MAX_RETRIES_FOR_VERSIONED_ENTITY_CREATION - 1 per resolution.
C8_BackoffSchedule ==
    \A p \in Procs :
        /\ \A k \in 1..Len(sleeps[p]) :
              /\ sleeps[p][k] * 10 * Pow(2, k - 1)
                    = 2 * Pow(3, k - 1) * SleepUnit
              /\ k <= Len(RoundedDelays)
                 => Rounds(sleeps[p][k], RoundedDelays[k])
              /\ k > 1 => sleeps[p][k - 1] < sleeps[p][k]
        /\ Len(sleeps[p]) <= MAX_RETRIES_FOR_VERSIONED_ENTITY_CREATION - 1
        /\ pc[p] \in {"insert", "done", "failed"}
           => Len(sleeps[p]) = IF Creates(p) = 0 THEN 0 ELSE Creates(p) - 1

C8_Witness ==
    \E p \in Procs :
        Len(sleeps[p]) = MAX_RETRIES_FOR_VERSIONED_ENTITY_CREATION - 1

\* p's create_model hit the uniqueness constraint
LostModelRace(p) ==
    /\ Len(calls[p]) >= 2
    /\ calls[p][2] = "create_model"
    /\ pc[p] = "refetch_model"
       \/ (Len(calls[p]) >= 3 /\ calls[p][3] = "get_model")

GetModels(p) ==
    Cardinality({k \in 1..Len(calls[p]) : calls[p][k] = "get_model"})

\* C9: a caller whose create_model conflicts fetches the model by name
\* once more, before any version call and outside the backoff loop, and
\* goes on with the model the other caller created; the conflict never
\* fails the resolution, callers of one name hold the same model id, and
\* the store holds one model of a name at most.
C9_ModelRace ==
    /\ \A n \in ModelNames : Cardinality(ModelsNamed(n)) <= 1
    /\ \A p \in Procs :
          /\ error[p].kind # "EntityExistsError"
          /\ LostModelRace(p)
             => /\ GetModels(p) = IF pc[p] = "refetch_model" THEN 1 ELSE 2
                /\ pc[p] = "refetch_model" => sleeps[p] = <<>>
                /\ (pc[p] # "refetch_model"
                    /\ ~(pc[p] = "failed" /\ Len(calls[p]) = 3))
                   => \E m \in ModelsNamed(ref[p].name) :
                          ref[p].model_id = m.id
    /\ \A p, q \in Procs :
          (/\ ref[p].name = ref[q].name
           /\ pc[p] \in {"reuse", "get_version", "create_version", "insert",
                         "done"}
           /\ pc[q] \in {"reuse", "get_version", "create_version", "insert",
                         "done"})
          => ref[p].model_id = ref[q].model_id

C9_Witness ==
    \E p \in Procs : LostModelRace(p) /\ pc[p] = "done"

\* C10 as stated: a resolution that returned after a hit of the reuse
\* lookup has issued no store call.
C10_ReuseWithoutStoreCall ==
    \A p \in Procs :
        (reused[p] # 0 /\ pc[p] = "done")
        => (result[p] = reused[p] /\ calls[p] = <<>>)

\* the store calls that resolve the parent model by name
ModelCalls ==
    { <<"get_model">>,
      <<"get_model", "create_model">>,
      <<"get_model", "create_model", "get_model">> }

\* C10 amended: a resolution whose reuse lookup hit issues no
\* create_model_version call and returns the reused version id; the store
\* calls it issues are those that resolve the parent model (the lookup,
\* and the creation if the model was absent), before the reuse lookup, and
\* one get_model_version by the reused id, after it.
C10_ReuseWithoutCreate ==
    \A p \in Procs :
        reused[p] # 0
        => /\ Creates(p) = 0
           /\ pc[p] \notin {"create_version", "insert"}
           /\ pc[p] = "get_version" => calls[p] \in ModelCalls
           /\ pc[p] = "done"
              => /\ result[p] = reused[p]
                 /\ ref[p].model_version_id = reused[p]
                 /\ calls[p] \in
                       {Append(c, "get_model_version") : c \in ModelCalls}

C10_Witness ==
    \E p \in Procs : reused[p] # 0 /\ pc[p] = "done"

\* the models of a set that the claimed condition of the reuse lookup
\* accepts for p: marked as created in this run, and of p's name
Flagged(S, p) ==
    {m \in S : m.was_created_in_this_run /\ m.name = ref[p].name}

\* the first step, in iteration order, with a model Flagged for p
FirstFlaggedStep(p) ==
    CHOOSE q \in Procs :
        /\ Flagged(run.steps[q], p) # {}
        /\ \A o \in Procs : Flagged(run.steps[o], p) # {} => q <= o

\* p's object takes the version name and the version id of a model of S
Adopts(S, p) ==
    \E m \in S : /\ ref'[p].version = m.version
                 /\ ref'[p].model_version_id = m.model_version_id

\* C11: the reuse lookup runs only for a reference without a selector and
\* inside a step; it takes the version name and id of the run's own model
\* if that is marked as created in this run and has the reference's name,
\* otherwise of the first step model, in iteration order, that is; it
\* issues no store call and creates nothing, and when nothing matches the
\* reference's version and model_version_id stay as they were.
C11_ReuseLookup ==
    [][\A p \in Procs :
          (pc[p] = "reuse" /\ pc'[p] # "reuse")
          => /\ calls'[p] = calls[p]
             /\ versions' = versions /\ models' = models /\ run' = run
             /\ \A m \in run.pipeline \cup UNION {run.steps[q] : q \in Procs} :
                   m.was_created_in_this_run => m.version # None
             /\ IF ~(ref[p].version = None /\ inStep[p])
                THEN /\ ref'[p] = ref[p]
                     /\ reused'[p] = 0
                ELSE IF Flagged(run.pipeline, p) # {}
                THEN /\ Adopts(Flagged(run.pipeline, p), p)
                     /\ reused'[p] = ref'[p].model_version_id
                ELSE IF \E q \in Procs : Flagged(run.steps[q], p) # {}
                THEN /\ Adopts(Flagged(run.steps[FirstFlaggedStep(p)], p), p)
                     /\ reused'[p] = ref'[p].model_version_id
                ELSE /\ ref'[p].version = ref[p].version
                     /\ ref'[p].model_version_id = ref[p].model_version_id
                     /\ reused'[p] = 0]_vars

\* the lookup adopted the version of the run's own model while a step model
\* of the same name, created in this run too, holds another version
C11_Witness ==
    \E p \in Procs :
        /\ reused[p] # 0
        /\ pc[p] = "done"
        /\ \E m \in run.pipeline : m.model_version_id = reused[p]
        /\ \E q \in Procs : \E m \in run.steps[q] :
              /\ ReuseMatch(m, ref[p].name)
              /\ m.model_version_id # reused[p]

\* C12: was_created_in_this_run turns true only in the step in which the
\* resolution's own create_model_version succeeds; a resolution that ends
\* by reuse or by fetching an existing version, and one that fails, leave
\* the flag as it was.
C12_FlagOnlyOnOwnCreate ==
    [][\A p \in Procs :
          /\ ref'[p].was_created_in_this_run # ref[p].was_created_in_this_run
             => /\ ~ref[p].was_created_in_this_run
                /\ pc[p] = "insert" /\ pc'[p] = "done"
                /\ calls[p][Len(calls[p])] = "create_model_version"
                /\ \E v \in versions' \ versions :
                      /\ v.by = p
                      /\ v.id = ref'[p].model_version_id
                      /\ v.id = result'[p]
          /\ (pc[p] = "get_version" /\ pc'[p] = "done")
             => /\ ref'[p].was_created_in_this_run
                      = ref[p].was_created_in_this_run
                /\ versions' = versions
          /\ (pc'[p] = "failed" /\ nres[p] = 1)
             => ~ref'[p].was_created_in_this_run]_vars

\* a resolution ended by reuse of a version another caller created: the
\* creator is marked, the reuser is not
C12_Witness ==
    \E p, q \in Procs :
        /\ pc[p] = "done" /\ reused[p] # 0
        /\ ~ref[p].was_created_in_this_run
        /\ ref[q].was_created_in_this_run
        /\ ref[q].model_version_id = ref[p].model_version_id

\* C20: after every successful return the object's model_version_id,
\* _number and _model_id are those of the returned version as the store
\* holds it; the numbers are the store's: the versions of a model are
\* numbered 1, 2, ... in the order the store inserted them, whatever name
\* the creation request carried.
C20_CachedFromStore ==
    /\ \A p \in Procs :
          pc[p] = "done"
          => \E v \in versions :
                /\ v.id = result[p]
                /\ ref[p].model_version_id = v.id
                /\ ref[p].number = v.number
                /\ ref[p].model_id = v.model
    /\ \A m \in models :
          {v.number : v \in VersionsOf(m.id)}
             = 1..Cardinality(VersionsOf(m.id))
    /\ \A p \in Procs : req[p] = None \/ req[p].t = "str"

\* a version created under an explicit name got the store's number 2
C20_Witness ==
    \E p \in Procs :
        /\ pc[p] = "done"
        /\ sel0[p] = StrV(<<"v","1">>)
        /\ ref[p].was_created_in_this_run
        /\ ref[p].number = 2

\* the tags p's object declares, as a set; empty when it declares none
Declared(p) == IF ref[p].tags = None THEN {} ELSE TagSet(ref[p].tags)

\* p's version lookup returns a version in this step
Fetches(p) == pc[p] = "get_version" /\ pc'[p] = "done"

\* the version p's resolution returned, as the store held it before the step
Fetched(p) == CHOOSE v \in versions : v.id = result'[p]

\* C14: when a fetched version stores the tags S and the caller declares a
\* non-empty tag set D other than S, the reported difference has
\* added = D \ S and removed = S \ D; when no tags and no description are
\* declared, or the declared ones equal the stored ones, nothing is
\* reported; the stored version and the caller's declared tags and
\* description are after the step what they were before.
C14_ReconciliationDiff ==
    [][\A p \in Procs :
          Fetches(p)
          => LET S == Fetched(p).tags
                 D == Declared(p)
                 dtags == D # {} /\ D # S
                 ddesc == /\ ref[p].description # NoDescription
                          /\ ref[p].description # Fetched(p).description
                 w == warnings'[p]
             IN /\ (dtags \/ ddesc)
                   => /\ Len(w) = Len(warnings[p]) + 1
                      /\ SubSeq(w, 1, Len(w) - 1) = warnings[p]
                /\ dtags
                   => /\ w[Len(w)].added = D \ S
                      /\ w[Len(w)].removed = S \ D
                      /\ {"tags added", "tags removed"} \subseteq w[Len(w)].keys
                /\ (ddesc /\ ~dtags) => w[Len(w)].keys = {"description"}
                /\ ~(dtags \/ ddesc) => w = warnings[p]
                /\ versions' = versions
                /\ ref'[p].tags = ref[p].tags
                /\ ref'[p].description = ref[p].description]_vars

\* stored {a, b}, declared {b, c}: added {c}, removed {a}
C14_Witness ==
    \E p \in Procs :
        /\ pc[p] = "done"
        /\ Declared(p) = {"b", "c"}
        /\ \E v \in versions : v.id = result[p] /\ v.tags = {"a", "b"}
        /\ Len(warnings[p]) = 1
        /\ warnings[p][1].added = {"c"}
        /\ warnings[p][1].removed = {"a"}

\* C15: a difference is computed and reported only by a resolution that
\* fetched an existing version, never by one that created its version;
\* reporting it is a warning and nothing else: the step writes nothing to
\* the store and the resolution returns the fetched version.
C15_DiffOnlyOnFetch ==
    [][\A p \in Procs :
          /\ (warnings'[p] # warnings[p] /\ warnings'[p] # <<>>)
             => /\ Fetches(p)
                /\ versions' = versions /\ models' = models
                /\ error'[p] = NoError
                /\ Fetched(p) \in GetModelVersion(ref[p])
                /\ ref'[p].model_version_id = result'[p]
          /\ warnings[p] # <<>>
             => /\ pc[p] = "done"
                /\ Creates(p) = 0
                /\ calls[p][Len(calls[p])] = "get_model_version"
          /\ (pc[p] = "insert" /\ pc'[p] = "done")
             => warnings'[p] = <<>>]_vars

\* one caller created a version and reported nothing; another fetched it
\* declaring other tags and another description, and got it with a warning
C15_Witness ==
    \E p, q \in Procs :
        /\ pc[p] = "done" /\ pc[q] = "done"
        /\ result[p] = result[q]
        /\ Creates(q) = 1 /\ warnings[q] = <<>>
        /\ ref[q].tags # None /\ ref[q].description # NoDescription
        /\ Len(warnings[p]) = 1
        /\ warnings[p][1].keys
              = {"description", "tags added", "tags removed"}

\* no store call was issued and the store holds nothing
StoreUntouched ==
    /\ models = {} /\ versions = {}
    /\ \A p \in Procs : calls[p] = <<>> /\ pc[p] = "idle"

\* C16: called while a pipeline is being defined, the four artifact getters
\* and run_metadata return a placeholder and do not enter the resolver:
\* no store call, no model, no version; the placeholder holds the owning
\* model's name and _lazy_version (the cached number as a string if there
\* is one, else the version as a string, else None) and, for the artifact
\* getters, the target's name and version.
C16_LazyInDefinition ==
    ret.op = "lazy"
    => /\ StoreUntouched
       /\ ret.resolves = ~arg.pipeline_context
       /\ arg.pipeline_context
          => /\ ret.placeholder.lazy_load_model_name = arg.self.name
             /\ ret.placeholder.lazy_load_model_version =
                   IF arg.self.number # 0
                   THEN StrV(IntToStr(arg.self.number))
                   ELSE IF arg.self.version = None THEN None
                   ELSE StrV(StrOf(arg.self.version))
             /\ arg.method # "run_metadata"
                => /\ ret.placeholder.lazy_load_name = arg.name
                   /\ ret.placeholder.lazy_load_version = arg.version

\* a getter called in a pipeline definition on a reference with no
\* selector and no cached number: a placeholder with no model version
C16_Witness ==
    /\ ret.op = "lazy"
    /\ arg.pipeline_context
    /\ arg.method = "get_model_artifact"
    /\ arg.self.version = None /\ arg.self.number = 0
    /\ ret.placeholder.lazy_load_model_version = None

\* the class of a token as the claim defines it
ClaimedKind(v) ==
    IF v # None /\ Lower(StrOf(v)) \in ModelStages THEN "Stage"
    ELSE IF v # None /\ IsNumeric(StrOf(v)) THEN "Numeric"
    ELSE "Explicit"

\* the class the construction announces
NoticeKind(notices) ==
    IF "stage" \in notices THEN "Stage"
    ELSE IF "numeric" \in notices THEN "Numeric"
    ELSE "Explicit"

\* the class the reserved-name check of the resolution works with
ResolutionKind(v) ==
    CASE ReservedKind(v) = "ReservedStage" -> "Stage"
      [] ReservedKind(v) = "ReservedNumeric" -> "Numeric"
      [] OTHER -> "Explicit"

\* C17: a token that equals a stage value, compared without regard to
\* case, is treated as a stage, a purely numeric token as a number, any
\* other as an explicit name, and the construction and the resolution
\* treat every token alike.
C17_SameClassification ==
    (ret.op = "construct" /\ ret.raised = "none"
     /\ ~arg.data.suppress_class_validation_warnings)
    => /\ NoticeKind(ret.notices) = ClaimedKind(arg.data.version)
       /\ ResolutionKind(arg.data.version) = ClaimedKind(arg.data.version)

\* C19: a construction with model_version_id set and without
\* suppress_class_validation_warnings raises ValueError, any other
\* succeeds; neither issues a store call; the data of a successful
\* construction carry the flag as true and are otherwise what was passed,
\* so validating the object again once it carries a model_version_id
\* succeeds.
C19_ReservedField ==
    /\ ret.op = "construct"
       => /\ StoreUntouched
          /\ ret.raised = "ValueError"
             <=> /\ arg.data.model_version_id # 0
                 /\ ~arg.data.suppress_class_validation_warnings
          /\ ret.raised # "ValueError"
             => /\ ret.raised = "none"
                /\ ret.data =
                      [arg.data EXCEPT
                          !.suppress_class_validation_warnings = TRUE]
    /\ ret.op = "revalidate"
       => /\ StoreUntouched
          /\ ret.raised = "none"
          /\ ret.data.model_version_id # 0
          /\ ret.data.suppress_class_validation_warnings

\* an object constructed without the flag and without an id was validated
\* again with the id its resolution cached
C19_Witness ==
    /\ ret.op = "revalidate"
    /\ ret.raised = "none"
    /\ ~arg.data.suppress_class_validation_warnings
    /\ arg.data.model_version_id = 0
    /\ ret.data.model_version_id = 2

\* C18 as stated: deciding a == b never creates a model version: the
\* resolutions the comparison runs issue no create_model_version call.
C18_EqNeverCreates ==
    eq.via = "id"
    => /\ Creates(eq.a) = 0
       /\ eq.st \in {"other", "True", "False"} => Creates(eq.b) = 0

\* C18 amended: references of different names are unequal and references
\* of one name and one version are equal, both decided without a store
\* call; references of one name and different versions are both resolved
\* by _get_or_create_model_version, self first, and are equal exactly when
\* the two resolutions return the same version id; these resolutions create
\* what is missing, and the comparison raises when one of them fails.
C18_Equality ==
    [][/\ (eq.st = "none" /\ eq'.st # "none")
          => LET a == eq'.a
                 b == eq'.b
             IN /\ ref[a].name # ref[b].name
                   => /\ eq'.st = "False"
                      /\ UNCHANGED << calls, models, versions, ref, pc >>
                /\ (ref[a].name = ref[b].name
                    /\ ref[a].version = ref[b].version)
                   => /\ eq'.st = "True"
                      /\ UNCHANGED << calls, models, versions, ref, pc >>
                /\ (ref[a].name = ref[b].name
                    /\ ref[a].version # ref[b].version)
                   => /\ eq'.st = "self"
                      /\ pc'[a] = "model" /\ calls'[a] = <<>>
       /\ (eq.st = "self" /\ eq'.st # "self")
          => \/ eq'.st = "other" /\ pc[eq.a] = "done"
                /\ pc'[eq.b] = "model" /\ calls'[eq.b] = <<>>
             \/ eq'.st = "raised" /\ pc[eq.a] = "failed"
       /\ (eq.st = "other" /\ eq'.st # "other")
          => \/ /\ pc[eq.b] = "done"
                /\ eq'.st = "True" <=> ref[eq.a].model_version_id
                                            = ref[eq.b].model_version_id
                /\ eq'.st \in {"True", "False"}
                /\ ref[eq.a].model_version_id # 0
                /\ ref[eq.b].model_version_id # 0
             \/ eq'.st = "raised" /\ pc[eq.b] = "failed"
       /\ eq.st \in {"True", "False", "raised"} => eq' = eq]_vars

\* references of one name and different selectors compared equal: the
\* name and the number of one version
C18_Witness ==
    /\ eq.st = "True" /\ eq.via = "id"
    /\ sel0[eq.a] # sel0[eq.b]
    /\ ref[eq.a].model_version_id = ref[eq.b].model_version_id

\* the model_version_id of the object p holds: during a preparation that
\* object is set aside and a copy of it is resolved
IdOfObject(p) ==
    IF prep[p] # "none" THEN cfg[p].model_version_id
    ELSE ref[p].model_version_id

\* C13: once the model_version_id of a reference object is set, no step
\* changes it to another value.
C13_IdWriteOnce ==
    [][\A p \in Procs :
          IdOfObject(p) # 0
          => (IF prep'[p] # "none" THEN cfg'[p].model_version_id
              ELSE ref'[p].model_version_id) = IdOfObject(p)]_vars

\* the steps of a resolution, as pairs of positions
Order ==
    { <<"idle", "model">>, <<"done", "model">>, <<"failed", "model">>,
      <<"model", "reuse">>, <<"model", "create_model">>,
      <<"create_model", "reuse">>, <<"create_model", "refetch_model">>,
      <<"refetch_model", "reuse">>,
      <<"reuse", "get_version">>, <<"reuse", "create_version">>,
      <<"get_version", "done">>, <<"get_version", "create_version">>,
      <<"create_version", "insert">>,
      <<"insert", "done">>, <<"insert", "create_version">> }

\* the positions between the start and the end of a resolution
Running ==
    { "model", "create_model", "refetch_model", "reuse", "get_version",
      "create_version", "insert" }

\* the positions at which the parent model is resolved
AfterModel == {"reuse", "get_version", "create_version", "insert", "done"}

\* the position a resolution is at lets it take its next step
CanStep(p) ==
    ENABLED (\/ GetModel(p) \/ CreateModel(p) \/ RefetchModel(p)
             \/ ReuseLookup(p) \/ GetVersion(p) \/ CreateVersion(p)
             \/ InsertVersion(p))

\* C21 as stated, for the store calls: the first store call of every
\* resolution is the lookup of the parent model by name.
C21_ModelCallFirst ==
    \A p \in Procs : calls[p] # <<>> => calls[p][1] = "get_model"

\* C21 amended: a resolution steps from Start to ModelResolved, then to the
\* version fetch or the creation, and ends in VersionResolved or Failed:
\* no version fetch and no creation call is issued before the parent
\* model is resolved, by get_model (and create_model when it is absent) or,
\* when the object already holds a version id, by one get_model_version by
\* that id; create_model_version is first issued only after a version
\* lookup returned not-found or after the reuse lookup left the reference
\* without selector and without version id, and again only after a
\* conflicting insert; a resolution under way can always take its next
\* step, and any step it takes that is off this order ends it as Failed.
C21_ResolutionOrder ==
    [][\A p \in Procs :
          /\ pc'[p] # pc[p]
             => \/ <<pc[p], pc'[p]>> \in Order
                \/ pc[p] \in Running /\ pc'[p] = "failed"
          /\ pc[p] \in Running => CanStep(p)
          /\ pc[p] \in AfterModel
             => /\ \E m \in models : m.id = ref[p].model_id
                /\ Len(calls[p]) >= 1
                /\ calls[p][1] = "get_model"
                   \/ (calls[p][1] = "get_model_version" /\ nres[p] > 1)
          /\ (pc[p] = "model" /\ pc'[p] = "reuse" /\ calls'[p][1] = "get_model")
             => calls'[p] \in ModelCalls
          /\ (pc'[p] = "create_version" /\ pc[p] # "create_version")
             => \/ /\ pc[p] = "get_version"
                   /\ GetModelVersion(ref[p]) = {}
                   /\ calls'[p][Len(calls'[p])] = "get_model_version"
                   /\ Creates(p) = 0
                \/ /\ pc[p] = "reuse"
                   /\ ~Truthy(ref'[p].version)
                   /\ ref'[p].model_version_id = 0
                   /\ Creates(p) = 0
                \/ /\ pc[p] = "insert"
                   /\ VersionConflict(ref[p].model_id, pending[p])
          /\ (calls'[p] # calls[p] /\ calls'[p] # <<>>
              /\ calls'[p][Len(calls'[p])] = "create_model_version")
             => pc[p] = "create_version"]_vars

\* one object was resolved again by the version id it held; another missed
\* the lookup of an explicit name and created the version
C21_Witness ==
    \E p, q \in Procs :
        /\ pc[p] = "done"
        /\ calls[p] = <<"get_model_version", "get_model_version">>
        /\ pc[q] = "done"
        /\ calls[q] = <<"get_model", "get_model_version",
                        "create_model_version">>

\* p's call of _prepare_model_version_before_step_launch returns in this step
PrepareReturns(p) ==
    /\ pc'[p] = "prepared"
    /\ prep'[p] = "none"
    /\ pc[p] # "prepared" \/ ref'[p] # ref[p]

\* C22: _prepare_model_version_before_step_launch resolves a copy: when it
\* returns the object it was called on has the version, the flag
\* was_created_in_this_run and every other field it had before the call,
\* except model_version_id, which is the id the copy ended with; while the
\* copy is resolved, and when its resolution raises, the object is left
\* as it was.
C22_ResolvesOnCopy ==
    [][\A p \in Procs :
          /\ (PrepareReturns(p) /\ prep[p] # "none")
             => /\ ref'[p] = [cfg[p] EXCEPT
                                !.model_version_id = ref[p].model_version_id]
                /\ ref'[p].version = cfg[p].version
                /\ ref'[p].was_created_in_this_run
                      = cfg[p].was_created_in_this_run
                /\ ref[p].model_version_id = result[p]
          /\ (PrepareReturns(p) /\ prep[p] = "none")
             => /\ ref'[p] = [ref[p] EXCEPT
                                !.model_version_id = ref'[p].model_version_id]
                /\ ref'[p].model_version_id \in
                      {ref[p].model_version_id, run_mv}
          /\ (prep[p] = "none" /\ prep'[p] # "none") => cfg'[p] = ref[p]
          /\ (prep[p] # "none" /\ prep'[p] # "none") => cfg'[p] = cfg[p]
          /\ (prep[p] # "none" /\ prep'[p] = "none" /\ pc[p] = "failed")
             => ref'[p] = cfg[p]]_vars

\* the copy of an object without a selector created a version: the object
\* has that version's id, no selector still, and is not marked as created
C22_Witness ==
    \E p \in Procs :
        /\ pc[p] = "prepared"
        /\ ref[p].version = None
        /\ ~ref[p].was_created_in_this_run
        /\ \E v \in versions : v.id = ref[p].model_version_id /\ v.by = p

\* C23: a preparation whose copy has no version id runs one resolution and,
\* when that returns, issues one binding update carrying the returned
\* version id, to the step run if one was passed and to the pipeline run
\* otherwise; a preparation without a step run on a run that has a model
\* version adopts that version's id and issues neither a resolution, nor a
\* store call, nor a binding update.
C23_RunBinding ==
    [][\A p \in Procs :
          /\ (prep[p] = "none" /\ prep'[p] # "none")
             => /\ ref'[p].model_version_id = 0
                /\ nres'[p] = nres[p] + 1
                /\ prep'[p] = "run" => run_mv = 0
                /\ binds' = binds /\ run_mv' = run_mv
          /\ (prep[p] # "none" /\ prep'[p] # "none")
             => /\ nres'[p] = nres[p]
                /\ binds'[p] = binds[p]
                /\ prep'[p] = prep[p]
          /\ (prep[p] # "none" /\ prep'[p] = "none")
             => IF pc[p] = "done"
                THEN /\ binds'[p] = Append(binds[p],
                                       [to |-> prep[p], id |-> result[p]])
                     /\ result[p] = ref'[p].model_version_id
                     /\ \E v \in versions : v.id = result[p]
                     /\ run_mv' = IF prep[p] = "run" THEN result[p]
                                  ELSE run_mv
                     /\ versions' = versions
                ELSE /\ pc[p] = "failed"
                     /\ binds'[p] = binds[p]
                     /\ run_mv' = run_mv
          /\ (PrepareReturns(p) /\ prep[p] = "none")
             => /\ run_mv # 0
                /\ ref'[p].model_version_id = run_mv
                /\ nres' = nres /\ calls' = calls /\ started' = started
                /\ versions' = versions /\ models' = models
                /\ binds' = binds /\ run_mv' = run_mv
          /\ binds'[p] # binds[p] => prep[p] # "none"]_vars

\* one launcher resolved for its step run and bound it; the other resolved
\* for the run and bound the run; the first then prepared an object for the
\* run and adopted the run's version without any call
C23_Witness ==
    \E p, q \in Procs :
        /\ binds[p] = << [to |-> "step", id |-> 1] >>
        /\ binds[q] = << [to |-> "run", id |-> 2] >>
        /\ pc[p] = "prepared" /\ prep[p] = "none"
        /\ run_mv = 2
        /\ ref[p].model_version_id = 2

\* p's object has no selector, an earlier call without a step run resolved
\* it and bound that run, and the run at hand has no model version yet
SharedWithNextRun(p) ==
    /\ pc[p] = "prepared" /\ prep[p] = "none"
    /\ ref[p].version = None
    /\ binds[p] # <<>>
    /\ binds[p][Len(binds[p])].to = "run"
    /\ run_mv = 0

\* C27: an object without a selector that was prepared for one run and is
\* handed to the next run, whose pipeline run has no model version yet, is
\* resolved afresh: the copy the call makes holds no version id, so the
\* call goes through the resolution and the binding.
C27_FreshPerRun ==
    \A p \in Procs :
        SharedWithNextRun(p)
        => \A step \in BOOLEAN :
              PreparedCopy(ref[p], step).model_version_id = 0

\* a read of a property returns or raises in this step
AccessEnds == ret' # ret /\ ret'.op = "access"

ExplicitName == StrV(<<"v","1">>)

\* the first resolutions of p and q began with the same explicit name of
\* the same model, both missed the lookup and went on to create, and no
\* store call failed otherwise
ExplicitRace(p, q) ==
    /\ p # q
    /\ nres[p] = 1 /\ nres[q] = 1
    /\ sel0[p] = ExplicitName /\ sel0[q] = ExplicitName
    /\ ref[p].name = ref[q].name
    /\ Creates(p) >= 1 /\ Creates(q) >= 1
    /\ faults = 0

\* C25: two concurrent resolutions of one model with the same explicit,
\* non-reserved version name that does not exist yet both return the same
\* version id: the one that loses the creation does not fail, and one
\* version of that name exists.
C25_ExplicitNameRace ==
    \A p, q \in Procs :
        ExplicitRace(p, q)
        => /\ pc[p] # "failed"
           /\ (pc[p] = "done" /\ pc[q] = "done") => result[p] = result[q]
           /\ Cardinality({v \in VersionsOf(ref[p].model_id) :
                              v.name = ExplicitName.s}) <= 1

\* C26: with as many concurrent resolutions without a selector against one
\* model as there are callers, not more than
\* MAX_RETRIES_FOR_VERSIONED_ENTITY_CREATION, and conflicts raised only
\* for a creation another caller committed in between, no resolution
\* fails or exhausts its retries: each retries once per other caller at
\* most; and under fair scheduling every resolution that was started
\* returns a version.
C26_BoundedContention ==
    /\ [](/\ Cardinality(Procs) <= MAX_RETRIES_FOR_VERSIONED_ENTITY_CREATION
          /\ \A p \in Procs :
                /\ pc[p] # "failed"
                /\ retries_made[p] <= Cardinality(Procs) - 1)
    /\ \A p \in Procs : (pc[p] \in Running) ~> (pc[p] = "done")

\* both callers returned a version, one of them after a retry
C26_Witness ==
    \E p, q \in Procs :
        /\ p # q
        /\ pc[p] = "done" /\ pc[q] = "done"
        /\ nres[p] = 1 /\ nres[q] = 1
        /\ retries_made[p] = 1 /\ retries_made[q] = 0
        /\ result[p] # result[q]

\* C28: the hash is consistent with equality: when a == b is True, a and b
\* hash alike, that is the strings __hash__ hashes are the same, also when
\* a and b have one name, different selectors and one version id.
C28_HashConsistent ==
    [][(eq.st # "True" /\ eq'.st = "True")
       => HashKey(ref'[eq'.a]) = HashKey(ref'[eq'.b])]_vars

====
